---- MODULE Spec2Model ----
(***************************************************************************)
(* Model of the video-assembly core of the FRBV pipeline:                  *)
(*   - pick_non_repeating_videos   (src/video_utils.py)                    *)
(*   - create_video_with_audio     (src/video_creator.py)                  *)
(*   - _apply_random_speed and its CPU fallback (src/video_creator.py)     *)
(***************************************************************************)
EXTENDS Integers, Sequences, FiniteSets, TLC

(***************************************************************************)
(* Bounds of the model.                                                    *)
(***************************************************************************)
\* largest number of video files in one folder of the catalog
MaxPerFolder == 3
\* largest number of video files in the whole catalog
MaxAssets == 4

\* longest narration, in seconds
MaxDuration == 11
\* the two durations a clip of the library can have, in seconds
ShortClip == 2
LongClip == 6
\* largest number of video files in the Videos directory of a whole run
MaxLibrary == 3
MaxProbed == 30
MaxRuns == 3

\* the folder names a catalog may use
Folders == {"A", "B", "C"}
\* the order in which the folders of the dict are iterated
FolderOrder == <<"A", "B", "C">>
\* Python's None
None == "None"

VARIABLES
    \* ---- pick_non_repeating_videos ----
    folder_to_videos,   \* the catalog: folder -> sequence of video paths
    count,              \* the requested number of videos
    sel_pc,             \* position in pick_non_repeating_videos
    all_videos,         \* the pool of (folder, video) pairs
    result,             \* the plan built so far
    used_videos,        \* the set of videos already in the plan
    last_folder,        \* folder of the last plan entry, or None
    sel_iter,           \* iterations of the outer loop completed
    sel_error,          \* the ValueError raised, or None
    sel_log,            \* per plan entry: the folders of the pool when it was selected
    \* ---- the speed transform ----
    impl,               \* which module runs: "video_creator" or "FRBV"
    files,              \* the output folder: normal_speed.mp4 and final_output.mp4
    rng_speed,          \* what random.uniform(1.5, 1.75) yields next, in 1/1000
    spd_draws,          \* how many times random.uniform has been called
    fs_faulty,          \* whether os.remove and os.rename can raise OSError in this run
    spd_in_handler,     \* whether _apply_random_speed is inside an except clause
    speed_factor,       \* the speed factor drawn, in 1/100, 0 before the draw
    spd_pc,             \* position in _apply_random_speed
    spd_input,          \* the normal-speed artifact the transform was entered with
    spd_trace,          \* the encode attempts and renames made, in order; left: a partial file was left
    \* ---- create_video_with_audio ----
    audio_exists,       \* whether gene_audio.wav is in the output folder
    library,            \* the catalog of the Videos directory on disk
    audio_duration,     \* the probed duration of the narration, in seconds
    selected_videos,    \* the plan returned by pick_non_repeating_videos
    video_clips,        \* the clips opened so far, in the order they were opened
    total_duration,     \* the accumulated duration of the opened clips
    load_idx,           \* position of the loading loop in selected_videos
    render_outcome,     \* how the composition and write_videofile ended, "none" before
    cmp_pc,             \* position in create_video_with_audio
    cmp_exit,           \* why create_video_with_audio returned, "none" before
    root_exists,        \* whether the Videos directory exists
    load_log,           \* what the loading loop did with each clip of the plan it tried
    audio_clip,         \* the narration clip: "unbound", "open" or "closed"
    final_clip,         \* the composed track: "unbound", "open" or "closed"
    \* ---- get_audio_duration ----
    prb_pc,             \* position in get_audio_duration
    prb_trace,          \* the strategies tried, in order, each with what it gave
    prb_result,         \* the duration returned, in seconds
    prb_error,          \* the exception raised, or None
    \* ---- main.py ----
    num_runs,           \* the number of stories asked for
    run_number,         \* the number of the run in progress or last made, from 1
    successful_runs,    \* the runs counted as successful
    main_pc,            \* position in the main script
    run_pc,             \* position in run_once
    run_cur,            \* how the phases of the run in progress ended, and its result
    run_log             \* run_cur of every finished run, in order

selVars == <<folder_to_videos, count, sel_pc, all_videos, result, used_videos,
             last_folder, sel_iter, sel_error, sel_log>>

spdVars == <<impl, files, rng_speed, spd_draws, fs_faulty, spd_in_handler, speed_factor, spd_pc, spd_input, spd_trace>>

cmpVars == <<audio_exists, library, audio_duration, selected_videos, video_clips,
             total_duration, load_idx, render_outcome, cmp_pc, cmp_exit,
            root_exists, load_log, audio_clip, final_clip>>

prbVars == <<prb_pc, prb_trace, prb_result, prb_error>>

mainVars == <<num_runs, run_number, successful_runs, main_pc, run_pc, run_cur, run_log>>

vars == <<selVars, spdVars, cmpVars, prbVars, mainVars>>

(***************************************************************************)
(* Helpers on sequences.                                                   *)
(***************************************************************************)
Range(s) == {s[i] : i \in DOMAIN s}

RECURSIVE SumSeq(_)
SumSeq(s) == IF s = <<>> THEN 0 ELSE Head(s) + SumSeq(Tail(s))

\* the sequence s without its i-th element: list.pop(i)
Pop(s, i) == SubSeq(s, 1, i - 1) \o SubSeq(s, i + 1, Len(s))

IsDistinct(s) == \A i, j \in DOMAIN s : i # j => s[i] # s[j]

(***************************************************************************)
(* The catalog.  A video path is the pair <<folder, k>>: the path joins    *)
(* the folder path and the file name, so paths of different folders        *)
(* differ.                                                                 *)
(***************************************************************************)
FolderOf(video) == video[1]

VideosOf(folder, n) == [k \in 1..n |-> <<folder, k>>]

\* the number of videos of a size assignment
TotalOf(sz) ==
    SumSeq([i \in 1..Len(FolderOrder) |->
              IF FolderOrder[i] \in DOMAIN sz THEN sz[FolderOrder[i]] ELSE 0])

\* every catalog get_all_video_files can return: a folder without videos is left out
Catalogs ==
    { [f \in DOMAIN sz |-> VideosOf(f, sz[f])] :
        sz \in { s \in UNION { [D -> 1..MaxPerFolder] : D \in SUBSET Folders } :
                   TotalOf(s) <= MaxAssets } }

\* [(folder, video) for folder, videos in folder_to_videos.items() for video in videos]
RECURSIVE FlattenFrom(_, _)
FlattenFrom(cat, i) ==
    IF i > Len(FolderOrder) THEN <<>>
    ELSE LET f == FolderOrder[i] IN
         (IF f \in DOMAIN cat
            THEN [k \in 1..Len(cat[f]) |-> <<f, cat[f][k]>>]
            ELSE <<>>) \o FlattenFrom(cat, i + 1)

Flatten(cat) == FlattenFrom(cat, 1)

\* every outcome of random.shuffle(pool)
Shuffles(pool) ==
    { [i \in 1..Len(pool) |-> pool[p[i]]] : p \in Permutations(1..Len(pool)) }

(***************************************************************************)
(* pick_non_repeating_videos                                               *)
(***************************************************************************)
\* a variant of the guard that is off by one
TooManyOffByOne(n, pool) == n > Len(pool) + 1

\* the guard of the raise: count > len(all_videos)
TooMany(n, pool) == n > Len(pool)

\* a variant of the first scan that does not compare the folder with the last one
FirstMatchAnyFolder(pool, used, last) ==
    LET ok == { i \in DOMAIN pool : pool[i][2] \notin used }
    IN IF ok = {} THEN 0 ELSE CHOOSE i \in ok : \A j \in ok : i <= j

\* index of the first pool entry that is unused and of another folder than
\* the last one, 0 when the for loop finds none (its else branch runs)
FirstMatch(pool, used, last) ==
    LET ok == { i \in DOMAIN pool : pool[i][2] \notin used /\ pool[i][1] # last }
    IN IF ok = {} THEN 0 ELSE CHOOSE i \in ok : \A j \in ok : i <= j

\* a variant without the else branch of the scan: nothing is picked
FirstUnusedNever(pool, used) == 0

\* index of the first unused pool entry, 0 when there is none
FirstUnused(pool, used) ==
    LET ok == { i \in DOMAIN pool : pool[i][2] \notin used }
    IN IF ok = {} THEN 0 ELSE CHOOSE i \in ok : \A j \in ok : i <= j

\* the entry one iteration of the outer loop selects, 0 when it selects none
SelectIndex(pool, used, last) ==
    IF FirstMatch(pool, used, last) # 0
      THEN FirstMatch(pool, used, last)
      ELSE FirstUnused(pool, used)

\* lines 24-26: flatten the catalog, raise when count exceeds the pool
PickEnter ==
    /\ sel_pc = "enter"
    /\ all_videos' = Flatten(folder_to_videos)
    /\ IF TooMany(count, Flatten(folder_to_videos))
         THEN /\ sel_pc' = "raised"
              /\ sel_error' = [requested |-> count,
                               maximum |-> Len(Flatten(folder_to_videos))]
         ELSE /\ sel_pc' = "shuffle"
              /\ UNCHANGED sel_error
    /\ UNCHANGED <<folder_to_videos, count, result, used_videos, last_folder,
                   sel_iter, sel_log>>
    /\ UNCHANGED <<spdVars, cmpVars, prbVars, mainVars>>

\* lines 28-32: shuffle the pool, start with an empty plan
PickShuffle ==
    /\ sel_pc = "shuffle"
    /\ all_videos' \in Shuffles(all_videos)
    /\ result' = <<>>
    /\ used_videos' = {}
    /\ last_folder' = None
    /\ sel_iter' = 0
    /\ sel_pc' = "loop"
    /\ UNCHANGED <<folder_to_videos, count, sel_error, sel_log>>
    /\ UNCHANGED <<spdVars, cmpVars, prbVars, mainVars>>

\* lines 34-50: one iteration of "for _ in range(count)"
PickIter ==
    /\ sel_pc = "loop"
    /\ sel_iter < count
    /\ LET i == SelectIndex(all_videos, used_videos, last_folder) IN
       IF i = 0
         THEN UNCHANGED <<all_videos, result, used_videos, last_folder, sel_log>>
         ELSE /\ result' = Append(result, all_videos[i][2])
              /\ used_videos' = used_videos \cup {all_videos[i][2]}
              /\ last_folder' = all_videos[i][1]
              /\ all_videos' = Pop(all_videos, i)
              /\ sel_log' = Append(sel_log,
                                   [prev |-> last_folder,
                                    pool |-> { all_videos[j][1] : j \in DOMAIN all_videos }])
    /\ sel_iter' = sel_iter + 1
    /\ UNCHANGED <<folder_to_videos, count, sel_pc, sel_error>>
    /\ UNCHANGED <<spdVars, cmpVars, prbVars, mainVars>>

\* line 52: return result
PickReturn ==
    /\ sel_pc = "loop"
    /\ sel_iter >= count
    /\ sel_pc' = "done"
    /\ UNCHANGED <<folder_to_videos, count, all_videos, result, used_videos,
                   last_folder, sel_iter, sel_error, sel_log>>
    /\ UNCHANGED <<spdVars, cmpVars, prbVars, mainVars>>

\* a call of pick_non_repeating_videos with any catalog and any count
SelCalled ==
    /\ folder_to_videos \in Catalogs
    /\ count \in 0..(Len(Flatten(folder_to_videos)) + 1)
    /\ sel_pc = "enter"
    /\ all_videos = <<>>
    /\ result = <<>>
    /\ used_videos = {}
    /\ last_folder = None
    /\ sel_iter = 0
    /\ sel_error = None
    /\ sel_log = <<>>

\* the selector before it is called
SelIdle ==
    /\ folder_to_videos = << >>
    /\ count = 0
    /\ sel_pc = "idle"
    /\ all_videos = <<>>
    /\ result = <<>>
    /\ used_videos = {}
    /\ last_folder = None
    /\ sel_iter = 0
    /\ sel_error = None
    /\ sel_log = <<>>

NextSel == PickEnter \/ PickShuffle \/ PickIter \/ PickReturn

(***************************************************************************)
(* The files of the output folder.  A file is a record: its kind, the      *)
(* duration of its track and of the footage in it (seconds), and the       *)
(* playback speed in 1/100 of the rendered track.                          *)
(***************************************************************************)
Absent == [kind |-> "absent", dur |-> 0, footage |-> 0, speed |-> 0]
\* what an encoder that failed or was killed leaves behind
Partial == [kind |-> "partial", dur |-> 0, footage |-> 0, speed |-> 0]
\* a final_output.mp4 left by an earlier run with the same title
Stale == [kind |-> "stale", dur |-> 0, footage |-> 0, speed |-> 0]
\* what write_videofile renders: a track of dur seconds holding footage seconds of clips
Rendered(dur, footage) ==
    [kind |-> "rendered", dur |-> dur, footage |-> footage, speed |-> 100]
\* what ffmpeg writes from file f with setpts and atempo of speed factor sf
Sped(f, sf) == [f EXCEPT !.kind = "sped", !.speed = sf]

Exists(f) == f.kind # "absent"

\* a variant of os.remove that leaves the file in place
RemoveNormalNot(fs) == fs

\* if os.path.exists(normal_output): os.remove(normal_output)
RemoveNormal(fs) == IF Exists(fs.normal) THEN [fs EXCEPT !.normal = Absent] ELSE fs

\* a variant of the rename that does not replace a file already at the target
RenameNormalNoReplace(fs) ==
    IF Exists(fs.normal) /\ ~Exists(fs.final)
      THEN [normal |-> Absent, final |-> fs.normal]
      ELSE fs

\* if os.path.exists(normal_output): os.rename(normal_output, sped_up_output)
\* (POSIX rename: a file at the target is replaced)
RenameNormal(fs) ==
    IF Exists(fs.normal) THEN [normal |-> Absent, final |-> fs.normal] ELSE fs

(***************************************************************************)
(* _apply_random_speed and _apply_random_speed_cpu_fallback                *)
(***************************************************************************)
\* the arguments of random.uniform(1.5, 1.75), in 1/100
SpeedLow == 150
SpeedHigh == 175
\* what random.uniform(1.5, 1.75) can return, in 1/1000: the value n stands for
\* the floats nearest to n/1000
RawDraws == (10 * SpeedLow)..(10 * SpeedHigh)

\* a variant of the rounding that always rounds up
Round2Up(x) == { (x \div 10) + 1 }

\* round(x, 2), x in 1/1000 and the result in 1/100; a float that stands
\* halfway between two hundredths goes to either, as its binary value decides
Round2(x) ==
    IF x % 10 = 5 THEN { x \div 10, (x \div 10) + 1 } ELSE { (x + 5) \div 10 }

\* the values round(random.uniform(1.5, 1.75), 2) can take, in 1/100
SpeedFactors == UNION { Round2(x) : x \in RawDraws }

\* a variant that truncates 1 / speed_factor to three decimals
SetPtsTruncated(sf) == 100000 \div sf

\* round(1.0 / speed_factor, 3) in 1/1000, speed_factor in 1/100
SetPts(sf) == (200000 + sf) \div (2 * sf)
\* atempo_value = speed_factor
ATempo(sf) == sf

\* how subprocess.run(ffmpeg_command, timeout=120) of the hardware encode can end:
\* exit 0, exit non-zero, TimeoutExpired, FileNotFoundError, another exception
HwOutcomes == {"ok", "nonzero", "timeout", "notfound", "error"}
\* how subprocess.run(ffmpeg_command, timeout=300) of the software encode can end
CpuOutcomes == {"ok", "nonzero", "timeout", "error"}

\* the output folder after an encode of normal_speed.mp4 into final_output.mp4
\* that ended with outcome o; a run that started writing may leave a partial file
EncodeEffect(fs, o, partial, sf) ==
    IF o = "ok" THEN [fs EXCEPT !.final = Sped(fs.normal, sf)]
    ELSE IF o \in {"nonzero", "timeout"} /\ partial THEN [fs EXCEPT !.final = Partial]
    ELSE fs

\* a variant in which a timeout keeps the normal-speed video without the CPU fallback
AfterHwTimeoutGivesUp(o) ==
    CASE o = "ok" -> "print"
      [] o = "nonzero" -> "cpu"
      [] o = "timeout" -> "passthrough"
      [] o = "notfound" -> "passthrough"
      [] o = "error" -> "cpu"

\* a variant in which a missing ffmpeg is handled like any other exception
AfterHwNotFoundTriesCpu(o) ==
    CASE o = "ok" -> "print"
      [] o = "nonzero" -> "cpu"
      [] o = "timeout" -> "cpu"
      [] o = "notfound" -> "cpu"
      [] o = "error" -> "cpu"

\* where _apply_random_speed goes after the hardware encode: returncode 0 (136),
\* else (141), except TimeoutExpired (154), FileNotFoundError (164), Exception (170)
AfterHw(o) ==
    CASE o = "ok" -> "print"
      [] o = "nonzero" -> "cpu"
      [] o = "timeout" -> "cpu"
      [] o = "notfound" -> "passthrough"
      [] o = "error" -> "cpu"

\* a variant in which the caller returns whatever the CPU fallback returned
AfterCpuAlwaysReturns(o) == "returned"

\* where the caller goes after the CPU fallback: it returns when the fallback
\* returned True (exit 0) and renames the normal-speed video otherwise
AfterCpu(o) == IF o = "ok" THEN "returned" ELSE "passthrough"

\* lines 100-122: draw the speed factor, build the ffmpeg command
SpeedEnter ==
    /\ impl = "video_creator"
    /\ spd_pc = "enter"
    /\ speed_factor' \in Round2(rng_speed)
    /\ spd_draws' = spd_draws + 1
    /\ spd_input' = files.normal
    /\ spd_pc' = "hw"
    /\ UNCHANGED <<impl, files, rng_speed, spd_trace, fs_faulty, spd_in_handler>>
    /\ UNCHANGED <<selVars, cmpVars, prbVars, mainVars>>

\* an event of the trace for a file operation that raised
Raised(op) == [op |-> op, outcome |-> "raised", left |-> FALSE, setpts |-> 0, atempo |-> 0]

\* lines 124-145, 154-156, 164-166, 170-172: the hardware encode and the branch
\* taken on its outcome; on exit 0 the normal-speed video is removed.  An
\* OSError of os.remove (line 140) is raised inside the try block and caught by
\* except Exception (line 170), which tries the CPU fallback
HwAttempt ==
    /\ spd_pc = "hw"
    /\ \E o \in HwOutcomes, partial \in BOOLEAN, fault \in BOOLEAN :
         /\ o = "ok" => Exists(files.normal)
         /\ partial => o \in {"nonzero", "timeout"}
         /\ fault => fs_faulty /\ o = "ok"
         /\ files' = (IF o = "ok" /\ ~fault
                        THEN RemoveNormal(EncodeEffect(files, o, partial, speed_factor))
                        ELSE EncodeEffect(files, o, partial, speed_factor))
         /\ spd_trace' = Append(spd_trace,
                                [op |-> "hw", outcome |-> o, left |-> partial,
                                 setpts |-> SetPts(speed_factor),
                                 atempo |-> ATempo(speed_factor)])
                         \o (IF fault THEN <<Raised("remove")>> ELSE <<>>)
         /\ spd_pc' = (IF fault THEN AfterHw("error") ELSE AfterHw(o))
         /\ spd_in_handler' = (fault \/ o \in {"timeout", "notfound", "error"})
    /\ UNCHANGED <<impl, rng_speed, spd_draws, speed_factor, spd_input, fs_faulty>>
    /\ UNCHANGED <<selVars, cmpVars, prbVars, mainVars>>

\* lines 182-225 with 147-148, 158-159 or 173-174: the software encode; on exit 0
\* it removes the normal-speed video and returns True, and the caller returns.
\* An OSError of os.remove (line 215) is caught by its except Exception (line
\* 223), which returns False
CpuFallback ==
    /\ spd_pc = "cpu"
    /\ \E o \in CpuOutcomes, partial \in BOOLEAN, fault \in BOOLEAN :
         /\ o = "ok" => Exists(files.normal)
         /\ partial => o \in {"nonzero", "timeout"}
         /\ fault => fs_faulty /\ o = "ok"
         /\ files' = (IF o = "ok" /\ ~fault
                        THEN RemoveNormal(EncodeEffect(files, o, partial, speed_factor))
                        ELSE EncodeEffect(files, o, partial, speed_factor))
         /\ spd_trace' = Append(spd_trace,
                                [op |-> "cpu", outcome |-> o, left |-> partial,
                                 setpts |-> SetPts(speed_factor),
                                 atempo |-> ATempo(speed_factor)])
                         \o (IF fault THEN <<Raised("remove")>> ELSE <<>>)
         /\ spd_pc' = (IF fault THEN AfterCpu("error") ELSE AfterCpu(o))
    /\ UNCHANGED <<impl, rng_speed, spd_draws, speed_factor, spd_input, fs_faulty,
                   spd_in_handler>>
    /\ UNCHANGED <<selVars, cmpVars, prbVars, mainVars>>

\* lines 150-152, 160-162, 166-168 or 175-177: keep the normal-speed video as
\* the final output.  An OSError of os.rename at line 152 is raised inside the
\* try block and caught by except Exception (line 170), which tries the CPU
\* fallback; raised inside an except clause (lines 162, 168, 177) it leaves
\* _apply_random_speed
Passthrough ==
    /\ spd_pc = "passthrough"
    /\ \E fault \in BOOLEAN :
         /\ fault => fs_faulty /\ Exists(files.normal)
         /\ files' = (IF fault THEN files ELSE RenameNormal(files))
         /\ spd_trace' = Append(spd_trace,
                                IF fault THEN Raised("rename")
                                ELSE [op |-> "rename", outcome |-> "ok", left |-> FALSE,
                                      setpts |-> 0, atempo |-> 0])
         /\ spd_pc' = (IF ~fault THEN "print"
                       ELSE IF spd_in_handler THEN "raised" ELSE AfterHw("error"))
         /\ spd_in_handler' = (spd_in_handler \/ fault)
    /\ UNCHANGED <<impl, rng_speed, spd_draws, speed_factor, spd_input, fs_faulty>>
    /\ UNCHANGED <<selVars, cmpVars, prbVars, mainVars>>

\* line 179: print the final path and return
PrintFinal ==
    /\ spd_pc = "print"
    /\ spd_pc' = "returned"
    /\ UNCHANGED <<impl, files, rng_speed, spd_draws, speed_factor, spd_input, spd_trace,
                   fs_faulty, spd_in_handler>>
    /\ UNCHANGED <<selVars, cmpVars, prbVars, mainVars>>

\* how silent_system(ffmpeg_command), an os.system call, can end
FrbvOutcomes == {"ok", "nonzero"}

\* FRBV.py lines 363-392: the speed change inside FRBV.create_video_with_audio:
\* one ffmpeg run, the normal-speed video removed on exit 0 and renamed
\* otherwise; an OSError of os.remove or os.rename leaves the section
FrbvSpeed ==
    /\ impl = "FRBV"
    /\ spd_pc = "enter"
    /\ spd_input' = files.normal
    /\ spd_draws' = spd_draws + 1
    /\ \E sf \in Round2(rng_speed), o \in FrbvOutcomes, partial \in BOOLEAN,
          fault \in BOOLEAN :
         /\ speed_factor' = sf
         /\ o = "ok" => Exists(files.normal)
         /\ partial => o = "nonzero"
         /\ fault => fs_faulty /\ Exists(files.normal)
         /\ files' = (IF fault THEN EncodeEffect(files, o, partial, sf)
                      ELSE IF o = "ok"
                        THEN RemoveNormal(EncodeEffect(files, o, partial, sf))
                        ELSE RenameNormal(EncodeEffect(files, o, partial, sf)))
         /\ spd_trace' = Append(spd_trace,
                                [op |-> "ffmpeg", outcome |-> o, left |-> partial,
                                 setpts |-> SetPts(sf),
                                 atempo |-> ATempo(sf)])
                         \o (IF fault
                               THEN <<Raised(IF o = "ok" THEN "remove" ELSE "rename")>>
                             ELSE IF o = "ok" THEN <<>>
                             ELSE <<[op |-> "rename", outcome |-> "ok", left |-> FALSE,
                                     setpts |-> 0, atempo |-> 0]>>)
         /\ spd_pc' = (IF fault THEN "raised" ELSE "returned")
    /\ UNCHANGED <<impl, rng_speed, fs_faulty, spd_in_handler>>
    /\ UNCHANGED <<selVars, cmpVars, prbVars, mainVars>>

\* the longest rendered track of the speed transform's initial states, in seconds
MaxRendered == 3

\* the speed transform before it is called
SpdIdle ==
    /\ impl = "video_creator"
    /\ files = [normal |-> Absent, final |-> Absent]
    /\ rng_speed = 10 * SpeedLow
    /\ speed_factor = 0
    /\ spd_draws = 0
    /\ fs_faulty = FALSE
    /\ spd_in_handler = FALSE
    /\ spd_pc = "idle"
    /\ spd_input = Absent
    /\ spd_trace = <<>>

\* a call of the speed transform right after write_videofile has rendered
\* normal_speed.mp4
SpeedCalled ==
    /\ SelIdle
    /\ impl \in {"video_creator", "FRBV"}
    /\ \E d \in 1..MaxRendered, g \in 1..MaxRendered :
         /\ g <= d
         /\ files \in { [normal |-> Rendered(d, g), final |-> fin] : fin \in {Absent, Stale} }
    /\ rng_speed \in RawDraws
    /\ speed_factor = 0
    /\ spd_draws = 0
    /\ fs_faulty = FALSE
    /\ spd_in_handler = FALSE
    /\ spd_pc = "enter"
    /\ spd_input = Absent
    /\ spd_trace = <<>>

NextSpeed ==
    SpeedEnter \/ HwAttempt \/ CpuFallback \/ Passthrough \/ PrintFinal \/ FrbvSpeed

(***************************************************************************)
(* get_audio_duration                                                      *)
(***************************************************************************)
\* what the ffprobe subprocess can give: ran is FALSE when the binary is not
\* found (FileNotFoundError); otherwise its exit code and its stripped output,
\* which is empty, not a number ("N/A"), or the number `value`
FfprobeOutputs ==
    { [ran |-> FALSE, rc |-> 1, stdout |-> "empty", value |-> 0] } \cup
    { [ran |-> TRUE, rc |-> rc, stdout |-> k, value |-> 0] :
        rc \in {0, 1}, k \in {"empty", "garbage"} } \cup
    { [ran |-> TRUE, rc |-> rc, stdout |-> "number", value |-> v] :
        rc \in {0, 1}, v \in (-1)..MaxDuration }

\* the durations AudioFileClip(audio_path).duration can be, in seconds
FallbackDurations == 1..MaxDuration

\* a variant without the existence check
PathMissingNever(exists) == FALSE

\* if not os.path.exists(audio_path)
PathMissing(exists) == ~exists

\* lines 71-73: the output of ffprobe is returned when the process ran, the
\* output is not empty, the exit code is 0 and float() parses the output
ToolOutputUsed(o) ==
    o.ran /\ o.stdout # "empty" /\ o.rc = 0 /\ o.stdout = "number"

\* lines 56-58: a missing file raises FileNotFoundError, outside the try
PrbEnter ==
    /\ prb_pc = "enter"
    /\ IF PathMissing(audio_exists)
         THEN prb_pc' = "raised" /\ prb_error' = "FileNotFoundError"
         ELSE prb_pc' = "ffprobe" /\ UNCHANGED prb_error
    /\ UNCHANGED <<prb_trace, prb_result>>
    /\ UNCHANGED <<selVars, spdVars, cmpVars, mainVars>>

\* lines 60-80: run ffprobe; return float(stdout) or go on to the fallback
PrbFfprobe ==
    /\ prb_pc = "ffprobe"
    /\ \E o \in FfprobeOutputs :
         /\ prb_trace' = Append(prb_trace, [step |-> "ffprobe", out |-> o])
         /\ IF ToolOutputUsed(o)
              THEN prb_result' = o.value /\ prb_pc' = "returned"
              ELSE prb_pc' = "fallback" /\ UNCHANGED prb_result
    /\ UNCHANGED prb_error
    /\ UNCHANGED <<selVars, spdVars, cmpVars, mainVars>>

\* lines 82-90: read the duration through AudioFileClip (d = 0: it raises, and
\* RuntimeError is raised in its place)
PrbFallback ==
    /\ prb_pc = "fallback"
    /\ \E d \in FallbackDurations \cup {0} :
         /\ prb_trace' = Append(prb_trace,
                                [step |-> "fallback",
                                 out |-> [ran |-> d # 0, rc |-> 0, stdout |-> "number",
                                          value |-> d]])
         /\ IF d = 0
              THEN prb_pc' = "raised" /\ prb_error' = "RuntimeError" /\ UNCHANGED prb_result
              ELSE prb_pc' = "returned" /\ prb_result' = d /\ UNCHANGED prb_error
    /\ UNCHANGED <<selVars, spdVars, cmpVars, mainVars>>

\* get_audio_duration before it is called
PrbIdle ==
    /\ prb_pc = "idle"
    /\ prb_trace = <<>>
    /\ prb_result = 0
    /\ prb_error = None

NextProbe == PrbEnter \/ PrbFfprobe \/ PrbFallback

(***************************************************************************)
(* create_video_with_audio                                                 *)
(***************************************************************************)
\* the duration of a clip VideoFileClip opens, in seconds
ClipDurations == {ShortClip, LongClip}

\* a variant of the clip count without the extra clip
ClipCountNoExtra(d) == d \div 5

\* count = int(audio_duration // 5) + 1
ClipCount(d) == (d \div 5) + 1

\* a variant of the break test that never stops the loading loop early
EnoughFootageNever(total, target) == FALSE

\* if total_duration >= audio_duration: break
EnoughFootage(total, target) == total >= target

\* the file write_videofile leaves for clips of `total` seconds trimmed to
\* `target` seconds by subclip(0, target): the frames of the concatenation end
\* at `total`, and asking it for a later frame raises
WrittenFile(total, target) ==
    IF total >= target
      THEN Rendered(target, target)
      ELSE [kind |-> "partial", dur |-> total, footage |-> total, speed |-> 100]

\* lines 16-23: the narration must exist
CvaCheckAudio ==
    /\ cmp_pc = "enter"
    /\ IF audio_exists
         THEN cmp_pc' = "probe" /\ UNCHANGED cmp_exit
         ELSE cmp_pc' = "returned" /\ cmp_exit' = "no_audio"
    /\ UNCHANGED <<root_exists, audio_exists, library, audio_duration, selected_videos,
                   video_clips, total_duration, load_idx, load_log, audio_clip,
                   final_clip, render_outcome>>
    /\ UNCHANGED <<selVars, spdVars, prbVars, mainVars>>

\* line 26: call get_audio_duration
CvaCallProbe ==
    /\ cmp_pc = "probe"
    /\ prb_pc = "idle"
    /\ prb_pc' = "enter"
    /\ cmp_pc' = "probing"
    /\ UNCHANGED <<prb_trace, prb_result, prb_error>>
    /\ UNCHANGED <<root_exists, audio_exists, library, audio_duration, selected_videos,
                   video_clips, total_duration, load_idx, load_log, audio_clip,
                   final_clip, render_outcome, cmp_exit>>
    /\ UNCHANGED <<selVars, spdVars, mainVars>>

\* lines 26-27: get_audio_duration has returned the duration (its locals are
\* gone with its frame)
CvaProbeReturned ==
    /\ cmp_pc = "probing"
    /\ prb_pc = "returned"
    /\ audio_duration' = prb_result
    /\ cmp_pc' = "catalog"
    /\ prb_pc' = "idle"
    /\ prb_trace' = <<>>
    /\ prb_result' = 0
    /\ UNCHANGED prb_error
    /\ UNCHANGED <<root_exists, audio_exists, library, selected_videos,
                   video_clips, total_duration, load_idx, load_log, audio_clip,
                   final_clip, render_outcome, cmp_exit>>
    /\ UNCHANGED <<selVars, spdVars, mainVars>>

\* lines 28-30: the exception of get_audio_duration is printed and the call
\* returns
CvaProbeRaised ==
    /\ cmp_pc = "probing"
    /\ prb_pc = "raised"
    /\ cmp_pc' = "returned"
    /\ cmp_exit' = "probe_failed"
    /\ prb_pc' = "idle"
    /\ prb_trace' = <<>>
    /\ UNCHANGED <<prb_result, prb_error>>
    /\ UNCHANGED <<root_exists, audio_exists, library, audio_duration, selected_videos,
                   video_clips, total_duration, load_idx, load_log, audio_clip,
                   final_clip, render_outcome>>
    /\ UNCHANGED <<selVars, spdVars, mainVars>>

\* a variant that takes every catalog as non-empty
CatalogEmptyNever(catalog) == FALSE

\* if not folder_to_videos
CatalogEmpty(catalog) == catalog = << >>

\* lines 32-36: scan the Videos directory (os.listdir raises FileNotFoundError
\* when the directory is absent, and nothing here catches it); an empty catalog
\* ends the call
CvaCatalog ==
    /\ cmp_pc = "catalog"
    /\ IF ~root_exists
         THEN /\ cmp_pc' = "raised"
              /\ cmp_exit' = "FileNotFoundError"
              /\ UNCHANGED folder_to_videos
         ELSE /\ folder_to_videos' = library
              /\ IF CatalogEmpty(library)
                   THEN cmp_pc' = "returned" /\ cmp_exit' = "no_videos"
                   ELSE cmp_pc' = "count" /\ UNCHANGED cmp_exit
    /\ UNCHANGED <<count, sel_pc, all_videos, result, used_videos, last_folder,
                   sel_iter, sel_error, sel_log>>
    /\ UNCHANGED <<root_exists, audio_exists, library, audio_duration, selected_videos,
                   video_clips, total_duration, load_idx, load_log, audio_clip,
                   final_clip, render_outcome>>
    /\ UNCHANGED <<spdVars, prbVars, mainVars>>

\* lines 38-41: compute the clip count and call pick_non_repeating_videos
CvaCallPick ==
    /\ cmp_pc = "count"
    /\ count' = ClipCount(audio_duration)
    /\ sel_pc' = "enter"
    /\ cmp_pc' = "picking"
    /\ UNCHANGED <<folder_to_videos, all_videos, result, used_videos, last_folder,
                   sel_iter, sel_error, sel_log>>
    /\ UNCHANGED <<root_exists, audio_exists, library, audio_duration, selected_videos,
                   video_clips, total_duration, load_idx, load_log, audio_clip,
                   final_clip, render_outcome, cmp_exit>>
    /\ UNCHANGED <<spdVars, prbVars, mainVars>>

\* lines 42-44: the ValueError of the selector is printed and the call returns
CvaPickRaised ==
    /\ cmp_pc = "picking"
    /\ sel_pc = "raised"
    /\ sel_pc' = "idle"
    /\ cmp_pc' = "returned"
    /\ cmp_exit' = "insufficient"
    /\ UNCHANGED <<folder_to_videos, count, all_videos, result, used_videos, last_folder,
                   sel_iter, sel_error, sel_log>>
    /\ UNCHANGED <<root_exists, audio_exists, library, audio_duration, selected_videos,
                   video_clips, total_duration, load_idx, load_log, audio_clip,
                   final_clip, render_outcome>>
    /\ UNCHANGED <<spdVars, prbVars, mainVars>>

\* lines 41, 46-48: the selector has returned its plan (its locals are gone with
\* its frame); start the loading loop
CvaPickReturned ==
    /\ cmp_pc = "picking"
    /\ sel_pc = "done"
    /\ selected_videos' = result
    /\ video_clips' = <<>>
    /\ total_duration' = 0
    /\ load_idx' = 1
    /\ load_log' = <<>>
    /\ cmp_pc' = "load"
    /\ sel_pc' = "idle"
    /\ all_videos' = <<>>
    /\ result' = <<>>
    /\ used_videos' = {}
    /\ last_folder' = None
    /\ sel_iter' = 0
    /\ sel_log' = <<>>
    /\ UNCHANGED <<folder_to_videos, count, sel_error>>
    /\ UNCHANGED <<root_exists, audio_exists, library, audio_duration, audio_clip,
                   final_clip, render_outcome, cmp_exit>>
    /\ UNCHANGED <<spdVars, prbVars, mainVars>>

\* a variant in which a clip that fails to open ends the loading loop
AfterFailedLoadGiveUp(idx, n) == n + 1

\* except Exception: continue -- the loop goes on with the next clip of the plan
AfterFailedLoad(idx, n) == idx + 1

\* lines 49-58: one iteration of the loading loop: VideoFileClip raises (d = 0,
\* the clip is skipped) or opens a clip of d seconds; the loop breaks once the
\* accumulated duration reaches the narration's.  load_log records, for each
\* clip opened, the duration accumulated before it, and -1 for a clip skipped
CvaLoadClip ==
    /\ cmp_pc = "load"
    /\ load_idx <= Len(selected_videos)
    /\ \E d \in ClipDurations \cup {0} :
         IF d = 0
           THEN /\ load_idx' = AfterFailedLoad(load_idx, Len(selected_videos))
                /\ load_log' = Append(load_log, [at |-> load_idx, before |-> -1])
                /\ UNCHANGED <<video_clips, total_duration, cmp_pc>>
           ELSE /\ video_clips' = Append(video_clips,
                                         [path |-> selected_videos[load_idx], duration |-> d,
                                          open |-> TRUE])
                /\ load_log' = Append(load_log, [at |-> load_idx, before |-> total_duration])
                /\ total_duration' = total_duration + d
                /\ load_idx' = load_idx + 1
                /\ cmp_pc' = IF EnoughFootage(total_duration + d, audio_duration)
                               THEN "loaded" ELSE "load"
    /\ UNCHANGED <<root_exists, audio_exists, library, audio_duration, selected_videos,
                   audio_clip, final_clip, render_outcome, cmp_exit>>
    /\ UNCHANGED <<selVars, spdVars, prbVars, mainVars>>

\* line 49: the plan is exhausted
CvaLoadEnd ==
    /\ cmp_pc = "load"
    /\ load_idx > Len(selected_videos)
    /\ cmp_pc' = "loaded"
    /\ UNCHANGED <<root_exists, audio_exists, library, audio_duration, selected_videos,
                   video_clips, total_duration, load_idx, load_log, audio_clip,
                   final_clip, render_outcome, cmp_exit>>
    /\ UNCHANGED <<selVars, spdVars, prbVars, mainVars>>

\* lines 60-62: without a single opened clip the call returns
CvaCheckClips ==
    /\ cmp_pc = "loaded"
    /\ IF video_clips = <<>>
         THEN cmp_pc' = "returned" /\ cmp_exit' = "no_clips"
         ELSE cmp_pc' = "render" /\ UNCHANGED cmp_exit
    /\ UNCHANGED <<root_exists, audio_exists, library, audio_duration, selected_videos,
                   video_clips, total_duration, load_idx, load_log, audio_clip,
                   final_clip, render_outcome>>
    /\ UNCHANGED <<selVars, spdVars, prbVars, mainVars>>

\* the clips after clip.close() on each of them
Closed(clips) == [i \in DOMAIN clips |-> [clips[i] EXCEPT !.open = FALSE]]

\* lines 64-77: concatenate and trim to the narration (line 66), open the
\* narration (line 69), attach it (line 72), write normal_speed.mp4 (lines
\* 75-77).  Each of the three can raise: "concat_error" leaves final_clip and
\* audio_clip unbound, "audio_error" leaves audio_clip unbound.  The write
\* raises when the footage ends before the narration ("shortfall") and can
\* fail for an outside reason ("error"), which leaves what had been written or
\* nothing at all
CvaRender ==
    /\ cmp_pc = "render"
    /\ \E o \in {"concat_error", "audio_error", "written", "error"}, partial \in BOOLEAN :
         /\ partial => o = "error"
         /\ final_clip' = (IF o = "concat_error" THEN "unbound" ELSE "open")
         /\ audio_clip' = (IF o \in {"concat_error", "audio_error"} THEN "unbound" ELSE "open")
         /\ render_outcome' = (IF o # "written" THEN "error"
                               ELSE IF total_duration >= audio_duration THEN "ok"
                               ELSE "shortfall")
         /\ files' = (IF o = "written"
                        THEN [files EXCEPT !.normal = WrittenFile(total_duration, audio_duration)]
                        ELSE IF partial THEN [files EXCEPT !.normal = Partial]
                        ELSE files)
         /\ cmp_pc' = (IF o = "written" /\ total_duration >= audio_duration
                         THEN "speed" ELSE "except")
    /\ UNCHANGED <<impl, rng_speed, spd_draws, speed_factor, spd_pc, spd_input, spd_trace,
                   fs_faulty, spd_in_handler>>
    /\ UNCHANGED <<root_exists, audio_exists, library, audio_duration, selected_videos,
                   video_clips, total_duration, load_idx, load_log, cmp_exit>>
    /\ UNCHANGED <<selVars, prbVars, mainVars>>

\* line 80 (FRBV.py: line 363): enter the speed transform
CvaCallSpeed ==
    /\ cmp_pc = "speed"
    /\ spd_pc = "idle"
    /\ spd_pc' = "enter"
    /\ cmp_pc' = "speeding"
    /\ UNCHANGED <<impl, files, rng_speed, spd_draws, speed_factor, spd_input, spd_trace,
                   fs_faulty, spd_in_handler>>
    /\ UNCHANGED <<root_exists, audio_exists, library, audio_duration, selected_videos,
                   video_clips, total_duration, load_idx, load_log, audio_clip,
                   final_clip, render_outcome, cmp_exit>>
    /\ UNCHANGED <<selVars, prbVars, mainVars>>

\* lines 82-86: the speed transform has returned; close the clips, the
\* narration and the composed track, and return
CvaClose ==
    /\ cmp_pc = "speeding"
    /\ spd_pc = "returned"
    /\ video_clips' = Closed(video_clips)
    /\ audio_clip' = "closed"
    /\ final_clip' = "closed"
    /\ cmp_pc' = "returned"
    /\ cmp_exit' = "completed"
    /\ UNCHANGED <<root_exists, audio_exists, library, audio_duration, selected_videos,
                   total_duration, load_idx, load_log, render_outcome>>
    /\ UNCHANGED <<selVars, spdVars, prbVars, mainVars>>

\* lines 88-95: the exception is printed, the opened clips are closed; nothing
\* closes audio_clip or final_clip
CvaExcept ==
    /\ cmp_pc = "except"
    /\ video_clips' = Closed(video_clips)
    /\ cmp_pc' = "returned"
    /\ cmp_exit' = "failed"
    /\ UNCHANGED <<root_exists, audio_exists, library, audio_duration, selected_videos,
                   total_duration, load_idx, load_log, audio_clip, final_clip,
                   render_outcome>>
    /\ UNCHANGED <<selVars, spdVars, prbVars, mainVars>>

\* create_video_with_audio before it is called
CmpIdle ==
    /\ root_exists = TRUE
    /\ audio_exists = FALSE
    /\ library = << >>
    /\ audio_duration = 0
    /\ selected_videos = <<>>
    /\ video_clips = <<>>
    /\ total_duration = 0
    /\ load_idx = 0
    /\ load_log = <<>>
    /\ audio_clip = "unbound"
    /\ final_clip = "unbound"
    /\ render_outcome = "none"
    /\ cmp_pc = "idle"
    /\ cmp_exit = "none"

\* the Videos directories of the runs of create_video_with_audio
Libraries == { c \in Catalogs : Len(Flatten(c)) <= MaxLibrary }

\* a call of create_video_with_audio: the output folder and the Videos
\* directory (which may be absent) are as the run finds them; the random
\* generator is at one of its draws, the others are those of SpeedCalled
CvaCalled ==
    /\ SelIdle
    /\ impl \in {"video_creator", "FRBV"}
    /\ files \in { [normal |-> Absent, final |-> fin] : fin \in {Absent, Stale} }
    /\ rng_speed = 10 * SpeedHigh
    /\ speed_factor = 0
    /\ spd_draws = 0
    /\ fs_faulty = FALSE
    /\ spd_in_handler = FALSE
    /\ spd_pc = "idle"
    /\ spd_input = Absent
    /\ spd_trace = <<>>
    /\ audio_exists \in BOOLEAN
    /\ root_exists \in BOOLEAN
    /\ library \in (IF root_exists THEN Libraries ELSE { << >> })
    /\ audio_duration = 0
    /\ selected_videos = <<>>
    /\ video_clips = <<>>
    /\ total_duration = 0
    /\ load_idx = 0
    /\ load_log = <<>>
    /\ audio_clip = "unbound"
    /\ final_clip = "unbound"
    /\ render_outcome = "none"
    /\ cmp_pc = "enter"
    /\ cmp_exit = "none"

NextCompose ==
    \/ CvaCheckAudio \/ CvaCallProbe \/ CvaProbeReturned \/ CvaProbeRaised
    \/ CvaCatalog \/ CvaCallPick \/ CvaPickRaised
    \/ CvaPickReturned \/ CvaLoadClip \/ CvaLoadEnd \/ CvaCheckClips \/ CvaRender
    \/ CvaCallSpeed \/ CvaClose \/ CvaExcept
    \/ NextSel \/ NextSpeed \/ NextProbe

(***************************************************************************)
(* main.py: run_once and the main loop                                     *)
(***************************************************************************)
\* what generate_text_content can return: (None, None, None) after an
\* exception, which it catches itself, or the title, the story and the output
\* folder; the model's answers for title and story can be empty
TextOutcomes ==
    { [title |-> None, story |-> None, folder |-> None] } \cup
    { [title |-> t, story |-> s, folder |-> "folder"] :
        t \in {"", "title"}, s \in {"", "story"} }

\* how generate_audio_from_story can end: gene_audio.wav is there, the tool
\* failed without a trace (os.system), or os.chdir or shutil.move raised
AudioOutcomes == {"narrated", "silent", "raised"}

\* how create_video_with_audio can end: one of its returns, or the exception
\* of the catalog scan
VideoOutcomes ==
    {"no_audio", "probe_failed", "no_videos", "insufficient", "no_clips",
     "completed", "failed", "raised"}

\* the phases of a run before they have run
NoPhases == [text |-> [title |-> None, story |-> None, folder |-> None],
             audio |-> "none", video |-> "none", result |-> FALSE]

\* a variant of the test that lets every answer of the text phase through
TextFailedNever(t) == FALSE

\* if not title or not story or not output_folder
TextFailed(t) ==
    \/ t.title \in {None, ""}
    \/ t.story \in {None, ""}
    \/ t.folder \in {None, ""}

\* a variant of run_once without the except clause
PhaseRaisedUncaught(phase) == "raised"

\* except Exception as e (line 78): where an exception raised by a phase goes
PhaseRaised(phase) == "except"

\* the number of runs that returned True
Successes(log) == Cardinality({ i \in DOMAIN log : log[i].result })

\* lines 85-93: read the number of runs, reset the counter
MainStart ==
    /\ main_pc = "start"
    /\ successful_runs' = 0
    /\ run_number' = 0
    /\ main_pc' = "loop"
    /\ UNCHANGED <<num_runs, run_pc, run_cur, run_log>>
    /\ UNCHANGED <<selVars, spdVars, cmpVars, prbVars>>

\* lines 95-103: the next iteration of for i in range(num_runs) calls run_once
LoopNext ==
    /\ main_pc = "loop"
    /\ run_number < num_runs
    /\ run_number' = run_number + 1
    /\ run_cur' = NoPhases
    /\ run_pc' = "text"
    /\ main_pc' = "running"
    /\ UNCHANGED <<num_runs, successful_runs, run_log>>
    /\ UNCHANGED <<selVars, spdVars, cmpVars, prbVars>>

\* lines 51-63: the text phase; a missing title, story or folder ends the run
\* with False
RunText ==
    /\ run_pc = "text"
    /\ \E t \in TextOutcomes :
         IF TextFailed(t)
           THEN /\ run_cur' = [run_cur EXCEPT !.text = t, !.result = FALSE]
                /\ run_pc' = "returned"
           ELSE /\ run_cur' = [run_cur EXCEPT !.text = t]
                /\ run_pc' = "audio"
    /\ UNCHANGED <<num_runs, run_number, successful_runs, main_pc, run_log>>
    /\ UNCHANGED <<selVars, spdVars, cmpVars, prbVars>>

\* lines 65-68: the audio phase
RunAudio ==
    /\ run_pc = "audio"
    /\ \E a \in AudioOutcomes :
         /\ run_cur' = [run_cur EXCEPT !.audio = a]
         /\ run_pc' = (IF a = "raised" THEN PhaseRaised("audio") ELSE "video")
    /\ UNCHANGED <<num_runs, run_number, successful_runs, main_pc, run_log>>
    /\ UNCHANGED <<selVars, spdVars, cmpVars, prbVars>>

\* lines 70-76: the video phase; whatever create_video_with_audio did, its
\* return is followed by return True.  Without gene_audio.wav it returns at
\* once
RunVideo ==
    /\ run_pc = "video"
    /\ \E v \in VideoOutcomes :
         /\ (v = "no_audio") <=> (run_cur.audio = "silent")
         /\ IF v = "raised"
              THEN /\ run_cur' = [run_cur EXCEPT !.video = v]
                   /\ run_pc' = PhaseRaised("video")
              ELSE /\ run_cur' = [run_cur EXCEPT !.video = v, !.result = TRUE]
                   /\ run_pc' = "returned"
    /\ UNCHANGED <<num_runs, run_number, successful_runs, main_pc, run_log>>
    /\ UNCHANGED <<selVars, spdVars, cmpVars, prbVars>>

\* lines 78-81: the exception of a phase is printed and run_once returns False
RunExcept ==
    /\ run_pc = "except"
    /\ run_cur' = [run_cur EXCEPT !.result = FALSE]
    /\ run_pc' = "returned"
    /\ UNCHANGED <<num_runs, run_number, successful_runs, main_pc, run_log>>
    /\ UNCHANGED <<selVars, spdVars, cmpVars, prbVars>>

\* lines 103-108: count the run if run_once returned True, pause, go on
LoopCount ==
    /\ main_pc = "running"
    /\ run_pc = "returned"
    /\ successful_runs' = (IF run_cur.result THEN successful_runs + 1 ELSE successful_runs)
    /\ run_log' = Append(run_log, run_cur)
    /\ run_pc' = "idle"
    /\ main_pc' = "loop"
    /\ UNCHANGED <<num_runs, run_number, run_cur>>
    /\ UNCHANGED <<selVars, spdVars, cmpVars, prbVars>>

\* lines 110-116: after the last run the server is stopped and the totals
\* are printed
MainStop ==
    /\ main_pc = "loop"
    /\ run_number >= num_runs
    /\ main_pc' = "done"
    /\ UNCHANGED <<num_runs, run_number, successful_runs, run_pc, run_cur, run_log>>
    /\ UNCHANGED <<selVars, spdVars, cmpVars, prbVars>>

\* main.py before it is started
MainIdle ==
    /\ num_runs = 0
    /\ run_number = 0
    /\ successful_runs = 0
    /\ main_pc = "idle"
    /\ run_pc = "idle"
    /\ run_cur = NoPhases
    /\ run_log = <<>>

NextMain ==
    \/ MainStart \/ LoopNext \/ RunText \/ RunAudio \/ RunVideo \/ RunExcept
    \/ LoopCount \/ MainStop

(***************************************************************************)
(* Specifications.                                                         *)
(***************************************************************************)
\* pick_non_repeating_videos called with any catalog and count
InitSel == SelCalled /\ SpdIdle /\ CmpIdle /\ PrbIdle /\ MainIdle

SpecSel == InitSel /\ [][NextSel]_vars

\* the speed transform entered with a rendered normal-speed video
InitSpeed == SpeedCalled /\ CmpIdle /\ PrbIdle /\ MainIdle

SpecSpeed == InitSpeed /\ [][NextSpeed]_vars

\* the speed transform entered with a rendered normal-speed video, in a run
\* where os.remove and os.rename can raise OSError (a directory that is not
\* writable, a file held by another process)
InitSpeedFaults ==
    /\ SelIdle
    /\ CmpIdle
    /\ PrbIdle
    /\ MainIdle
    /\ impl \in {"video_creator", "FRBV"}
    /\ \E d \in 1..MaxRendered, g \in 1..MaxRendered :
         /\ g <= d
         /\ files \in { [normal |-> Rendered(d, g), final |-> fin] : fin \in {Absent, Stale} }
    /\ rng_speed \in {10 * SpeedLow, 10 * SpeedHigh}
    /\ speed_factor = 0
    /\ spd_draws = 0
    /\ fs_faulty = TRUE
    /\ spd_in_handler = FALSE
    /\ spd_pc = "enter"
    /\ spd_input = Absent
    /\ spd_trace = <<>>

SpecSpeedFaults == InitSpeedFaults /\ [][NextSpeed]_vars

\* one call of create_video_with_audio, with the selector and the speed
\* transform it calls
InitCompose == CvaCalled /\ PrbIdle /\ MainIdle

SpecCompose == InitCompose /\ [][NextCompose]_vars

\* the clip count step of create_video_with_audio alone, for every probed
\* duration up to MaxProbed seconds and every catalog that is not empty
InitCount ==
    /\ SpdIdle
    /\ PrbIdle
    /\ MainIdle
    /\ count = 0
    /\ sel_pc = "idle"
    /\ all_videos = <<>>
    /\ result = <<>>
    /\ used_videos = {}
    /\ last_folder = None
    /\ sel_iter = 0
    /\ sel_error = None
    /\ sel_log = <<>>
    /\ root_exists = TRUE
    /\ audio_exists = TRUE
    /\ library \in Libraries \ { << >> }
    /\ folder_to_videos = library
    /\ audio_duration \in 0..MaxProbed
    /\ selected_videos = <<>>
    /\ video_clips = <<>>
    /\ total_duration = 0
    /\ load_idx = 0
    /\ load_log = <<>>
    /\ audio_clip = "unbound"
    /\ final_clip = "unbound"
    /\ render_outcome = "none"
    /\ cmp_pc = "count"
    /\ cmp_exit = "none"

NextCount == CvaCallPick

SpecCount == InitCount /\ [][NextCount]_vars

\* main.py started with the number of stories the user enters
InitMain ==
    /\ SelIdle
    /\ SpdIdle
    /\ CmpIdle
    /\ PrbIdle
    /\ num_runs \in 0..MaxRuns
    /\ run_number = 0
    /\ successful_runs = 0
    /\ main_pc = "start"
    /\ run_pc = "idle"
    /\ run_cur = NoPhases
    /\ run_log = <<>>

SpecMain == InitMain /\ [][NextMain]_vars

\* the script is one sequential process: whatever step is next is taken
SpecMainLive == SpecMain /\ WF_vars(NextMain)

\* get_audio_duration called with a path that exists or not
InitProbe ==
    /\ SelIdle
    /\ SpdIdle
    /\ MainIdle
    /\ audio_exists \in BOOLEAN
    /\ root_exists = TRUE
    /\ library = << >>
    /\ audio_duration = 0
    /\ selected_videos = <<>>
    /\ video_clips = <<>>
    /\ total_duration = 0
    /\ load_idx = 0
    /\ load_log = <<>>
    /\ audio_clip = "unbound"
    /\ final_clip = "unbound"
    /\ render_outcome = "none"
    /\ cmp_pc = "idle"
    /\ cmp_exit = "none"
    /\ prb_pc = "enter"
    /\ prb_trace = <<>>
    /\ prb_result = 0
    /\ prb_error = None

SpecProbe == InitProbe /\ [][NextProbe]_vars

(***************************************************************************)
(* Properties of pick_non_repeating_videos.                                *)
(***************************************************************************)
\* the videos of the catalog
AssetsOf(cat) == { p[2] : p \in Range(Flatten(cat)) }
TotalAssets == Len(Flatten(folder_to_videos))

\* the number of positions of a plan whose folder is that of the entry before
Adjacencies(plan) ==
    Cardinality({ i \in 2..Len(plan) : FolderOf(plan[i]) = FolderOf(plan[i - 1]) })

\* the least number of same-folder adjacencies of any sequence of n distinct
\* videos, rem[f] videos being left in folder f and the last folder being last
RECURSIVE BestAdjacencies(_, _, _)
BestAdjacencies(rem, last, n) ==
    IF n = 0 THEN 0
    ELSE LET costs == { (IF f = last THEN 1 ELSE 0)
                          + BestAdjacencies([rem EXCEPT ![f] = @ - 1], f, n - 1) :
                        f \in { g \in DOMAIN rem : rem[g] > 0 } }
         IN CHOOSE c \in costs : \A d \in costs : c <= d

MinAdjacencies(cat, n) ==
    BestAdjacencies([f \in DOMAIN cat |-> Len(cat[f])], None, n)

\* C1: for every catalog and every count N <= the number of assets, whatever the
\* shuffle, the call does not raise and the plan it returns has exactly N
\* entries, all of them videos of the catalog, none of them twice.
C1_PlanLengthAndDistinct ==
    count <= TotalAssets =>
        /\ sel_pc # "raised"
        /\ sel_pc = "done" =>
             /\ Len(result) = count
             /\ IsDistinct(result)
             /\ Range(result) \subseteq AssetsOf(folder_to_videos)

\* a returned plan of three videos, two of them consecutive in one folder
C1_Witness ==
    /\ sel_pc = "done"
    /\ count = 3
    /\ Len(result) = 3
    /\ Adjacencies(result) > 0

\* C2: for every count N greater than the number of assets the call raises the
\* ValueError naming N and the maximum, before the shuffle and before any
\* selection, and no plan, not even a partial one, is built.
C2_InsufficientAssets ==
    count > TotalAssets =>
        /\ sel_pc \in {"enter", "raised"}
        /\ result = <<>>
        /\ used_videos = {}
        /\ sel_pc = "raised" =>
             sel_error = [requested |-> count, maximum |-> TotalAssets]

\* the call has raised for a request of 3 videos out of 2
C2_Witness ==
    /\ sel_pc = "raised"
    /\ sel_error = [requested |-> 3, maximum |-> 2]

\* C3: two consecutive plan entries are of one folder only if every video of
\* the pool, when the second was selected, was of that folder; so every
\* same-folder adjacency lies in one final run of entries of a single folder.
C3_AdjacencyOnlyWhenForced ==
    \A i \in 2..Len(result) :
        FolderOf(result[i]) = FolderOf(result[i - 1]) =>
            /\ sel_log[i].prev = FolderOf(result[i - 1])
            /\ sel_log[i].pool = {FolderOf(result[i])}
            /\ \A j \in (i - 1)..Len(result) : FolderOf(result[j]) = FolderOf(result[i])

\* a returned plan over two folders that ends in a run of three videos of one folder
C3_Witness ==
    /\ sel_pc = "done"
    /\ Len(result) = 4
    /\ FolderOf(result[1]) # FolderOf(result[2])
    /\ FolderOf(result[2]) = FolderOf(result[3])
    /\ FolderOf(result[3]) = FolderOf(result[4])

\* C4: the number of positions of the returned plan whose folder equals that of
\* the entry before is the least that any duplicate-free plan of the same
\* length over the catalog can have.
C4_MinimalRelaxation ==
    (sel_pc = "done" /\ count <= TotalAssets) =>
        Adjacencies(result) = MinAdjacencies(folder_to_videos, count)

(***************************************************************************)
(* Properties of the speed transform.                                      *)
(***************************************************************************)
\* the encode attempts of the trace
Encodes == { i \in DOMAIN spd_trace : spd_trace[i].op \in {"hw", "cpu", "ffmpeg"} }
\* the trace as the sequence of its operations and outcomes
TraceOps == [i \in DOMAIN spd_trace |-> <<spd_trace[i].op, spd_trace[i].outcome>>]

\* C5: when the hardware encode exits non-zero or times out, the software
\* encode is the next thing attempted, before any rename of the normal-speed
\* video, and the transform does not return without having attempted it.
C5_HwFailureThenCpu ==
    \A i \in DOMAIN spd_trace :
        (spd_trace[i].op = "hw" /\ spd_trace[i].outcome \in {"nonzero", "timeout"}) =>
            /\ spd_pc = "returned" => i < Len(spd_trace)
            /\ i < Len(spd_trace) => spd_trace[i + 1].op = "cpu"

\* the hardware encode timed out, the software encode failed too, the video was renamed
C5_Witness ==
    /\ spd_pc = "returned"
    /\ TraceOps = << <<"hw", "timeout">>, <<"cpu", "nonzero">>, <<"rename", "ok">> >>

C8_AllFailedKeepsNormal ==
    (/\ spd_pc = "returned"
     /\ \A i \in Encodes : spd_trace[i].outcome # "ok") =>
        /\ files.final = spd_input
        /\ files.final.kind = "rendered"
        /\ files.normal = Absent

\* every attempted encode failed, one of them left a partial file, and the
\* final output is the normal-speed video
C8_Witness ==
    /\ spd_pc = "returned"
    /\ Encodes # {}
    /\ \A i \in Encodes : spd_trace[i].outcome # "ok"
    /\ \E i \in Encodes : spd_trace[i].left
    /\ files.final = spd_input
    /\ files.final.kind = "rendered"

\* C9: whenever the transform, entered with normal_speed.mp4 present, has
\* returned, final_output.mp4 exists (it is the sped-up video or the
\* normal-speed video itself) and normal_speed.mp4 no longer exists.
C9_FinalExistsNormalGone ==
    (spd_pc = "returned" /\ Exists(spd_input)) =>
        /\ Exists(files.final)
        /\ files.final \in {spd_input, Sped(spd_input, speed_factor)}
        /\ ~Exists(files.normal)

\* the hardware encode timed out, the software encode succeeded and the transform returned
C9_Witness ==
    /\ spd_pc = "returned"
    /\ TraceOps = << <<"hw", "timeout">>, <<"cpu", "ok">> >>
    /\ files.final.kind = "sped"
    /\ ~Exists(files.normal)

(***************************************************************************)
(* Properties of create_video_with_audio.                                  *)
(***************************************************************************)
\* C10: whenever at least one clip was opened and the composition was written,
\* normal_speed.mp4 is a track as long as the probed narration that holds
\* footage of the opened clips for its whole length, however many clips were
\* concatenated and however long they are together.
C10_RenderedMatchesNarration ==
    (/\ cmp_pc \in {"speed", "except"}
     /\ render_outcome \in {"ok", "shortfall"}
     /\ video_clips # <<>>) =>
        files.normal = Rendered(audio_duration, audio_duration)

(***************************************************************************)
(* Properties of get_audio_duration.                                       *)
(***************************************************************************)
\* C17: called with a path that does not exist, get_audio_duration raises
\* FileNotFoundError before ffprobe is run and before the fallback is tried;
\* neither strategy is ever attempted for the missing file.
C17_MissingFileRaisesFirst ==
    ~audio_exists =>
        /\ prb_pc \in {"enter", "raised"}
        /\ prb_trace = <<>>
        /\ prb_pc = "raised" => prb_error = "FileNotFoundError"

\* the call for a missing file has raised FileNotFoundError
C17_Witness ==
    /\ ~audio_exists
    /\ prb_pc = "raised"
    /\ prb_error = "FileNotFoundError"
    /\ prb_trace = <<>>

\* C18: every value get_audio_duration returns is strictly positive, and
\* whenever ffprobe is unavailable, exits non-zero or prints something that is
\* not a positive number (nothing, not a number, zero, a negative number), the
\* value returned is the one the fallback read.
C18_ReturnsPositive ==
    prb_pc = "returned" =>
        /\ prb_result > 0
        /\ LET o == prb_trace[1].out IN
           ~(o.ran /\ o.rc = 0 /\ o.stdout = "number" /\ o.value > 0) =>
               /\ Len(prb_trace) = 2
               /\ prb_trace[2].step = "fallback"
               /\ prb_result = prb_trace[2].out.value

(***************************************************************************)
(* Properties of create_video_with_audio: the steps before rendering.      *)
(***************************************************************************)
\* C11: for every probed duration d >= 0 the requested clip count is
\* floor(d / 5) + 1, hence at least 1; d = 23 gives 5 and a multiple of 5
\* gives d/5 + 1.
C11_ClipCount ==
    (cmp_pc = "picking" /\ audio_duration >= 0) =>
        /\ count >= 1
        /\ 5 * (count - 1) <= audio_duration
        /\ audio_duration < 5 * count
        /\ audio_duration = 23 => count = 5
        /\ audio_duration % 5 = 0 => 5 * (count - 1) = audio_duration

\* the count has been computed for a narration of 23 seconds
C11_Witness ==
    /\ cmp_pc = "picking"
    /\ audio_duration = 23
    /\ count = 5

\* the exits of create_video_with_audio before any clip is loaded
EarlyExits == {"no_audio", "probe_failed", "no_videos", "insufficient"}

\* C12: a missing narration, a probe that failed with both strategies, an
\* empty catalog and a selector that raised InsufficientAssets each make
\* create_video_with_audio return without raising, with no clip opened and
\* neither the normal-speed nor the final artifact created.
C12_EarlyAbortsReturnCleanly ==
    /\ (~audio_exists /\ cmp_pc # "enter") =>
           cmp_pc = "returned" /\ cmp_exit = "no_audio"
    /\ (prb_error # None /\ cmp_pc # "probing") =>
           cmp_pc = "returned" /\ cmp_exit = "probe_failed"
    /\ (root_exists /\ library = << >> /\ audio_exists /\ prb_error = None
            /\ cmp_pc \notin {"enter", "probe", "probing", "catalog"}) =>
           cmp_pc = "returned" /\ cmp_exit = "no_videos"
    /\ (count > TotalAssets
            /\ cmp_pc \notin {"enter", "probe", "probing", "catalog", "count", "picking"}) =>
           cmp_pc = "returned" /\ cmp_exit = "insufficient"
    /\ cmp_exit \in EarlyExits =>
           /\ cmp_pc = "returned"
           /\ video_clips = <<>>
           /\ load_log = <<>>
           /\ audio_clip = "unbound"
           /\ final_clip = "unbound"
           /\ render_outcome = "none"
           /\ spd_trace = <<>>
           /\ files.normal = Absent
           /\ files.final \in {Absent, Stale}

\* the probe failed with both strategies and the call has returned
C12_Witness ==
    /\ cmp_pc = "returned"
    /\ cmp_exit = "probe_failed"
    /\ prb_error = "RuntimeError"

\* C13: with the video library root absent, create_video_with_audio returns
\* and no exception leaves it.
C13_MissingRootReturns ==
    (~root_exists /\ audio_exists /\ prb_error = None
        /\ cmp_pc \notin {"enter", "probe", "probing", "catalog"}) =>
        cmp_pc = "returned"

\* C14: whenever create_video_with_audio has returned or raised, every video
\* clip it opened, the narration clip and the composed track are closed.
C14_AllReleasedOnExit ==
    cmp_pc \in {"returned", "raised"} =>
        /\ \A i \in DOMAIN video_clips : ~video_clips[i].open
        /\ audio_clip # "open"
        /\ final_clip # "open"

(***************************************************************************)
(* Properties of the loading loop.                                         *)
(***************************************************************************)
\* the entries of load_log for clips that opened
OpenedEntries == SelectSeq(load_log, LAMBDA e : e.before # -1)

\* the positions of create_video_with_audio after the loading loop
AfterLoading == {"loaded", "render", "speed", "speeding", "except"}

\* C19: the loading loop tries the clips of the plan in plan order; a clip
\* that fails to open is skipped and the next one is tried, so the loop ends
\* only at the end of the plan or on a clip that opened; the clips composed
\* are the ones that opened, in plan order; rendering starts only with at
\* least one clip, and with none create_video_with_audio returns without
\* rendering anything.
C19_SkipFailedClips ==
    /\ \A i \in DOMAIN load_log : load_log[i].at = i
    /\ Len(load_log) <= Len(selected_videos)
    /\ cmp_pc = "load" => load_idx = Len(load_log) + 1
    /\ Len(video_clips) = Len(OpenedEntries)
    /\ \A k \in DOMAIN video_clips :
          video_clips[k].path = selected_videos[OpenedEntries[k].at]
    /\ (cmp_pc \in AfterLoading \/ cmp_exit \in {"no_clips", "completed", "failed"}) =>
          \/ Len(load_log) = Len(selected_videos)
          \/ load_log[Len(load_log)].before # -1
    /\ (cmp_pc \in AfterLoading \ {"loaded"} \/ cmp_exit \in {"completed", "failed"}) =>
          video_clips # <<>>
    /\ cmp_exit = "no_clips" =>
          /\ cmp_pc = "returned"
          /\ video_clips = <<>>
          /\ render_outcome = "none"
          /\ final_clip = "unbound"
          /\ spd_trace = <<>>
          /\ files.normal = Absent
          /\ files.final \in {Absent, Stale}

\* the first clip of the plan failed to open, the second opened, and the
\* composition goes on with it
C19_Witness ==
    /\ cmp_pc = "render"
    /\ Len(load_log) >= 2
    /\ load_log[1].before = -1
    /\ load_log[2].before # -1
    /\ Len(video_clips) = 1

\* C20: every clip is opened while the duration accumulated before it is
\* strictly less than the narration's, so the total loaded exceeds the
\* narration by less than the duration of the clip loaded last.
C20_OpenOnlyWhileShort ==
    /\ \A k \in DOMAIN OpenedEntries : OpenedEntries[k].before < audio_duration
    /\ video_clips # <<>> =>
          total_duration - audio_duration < video_clips[Len(video_clips)].duration

(***************************************************************************)
(* Properties of the speed factor.                                         *)
(***************************************************************************)
\* C15: the speed factor drawn is the draw of random.uniform rounded to a
\* multiple of 0.01 and lies between 1.50 and 1.75, both of which are
\* attained.
C15_SpeedFactorRange ==
    spd_draws > 0 =>
        /\ speed_factor \in SpeedLow..SpeedHigh
        /\ 10 * speed_factor - rng_speed \in (-5)..5

\* a draw below 1.75 has been rounded up to the upper bound
C15_Witness ==
    /\ spd_draws > 0
    /\ speed_factor = SpeedHigh
    /\ rng_speed < 10 * SpeedHigh

\* C16: random.uniform is called once per run of the speed transform, and
\* every encode attempt of the run, hardware or software, has the audio tempo
\* f and the video timestamp multiplier 1/f rounded to three decimals, for
\* the one factor f drawn.
C16_OneFactorPerRun ==
    /\ spd_draws <= 1
    /\ spd_trace # <<>> => spd_draws = 1
    /\ \A i \in Encodes :
          /\ spd_trace[i].atempo = speed_factor
          /\ 2 * spd_trace[i].setpts * speed_factor - 200000 \in (-speed_factor)..speed_factor

\* the hardware encode and the software encode have both been attempted
C16_Witness ==
    /\ spd_pc = "returned"
    /\ \E i, j \in Encodes : spd_trace[i].op = "hw" /\ spd_trace[j].op = "cpu"

(***************************************************************************)
(* Properties of the tiers of the speed transform when file operations can *)
(* raise.                                                                  *)
(***************************************************************************)
\* the positions of the trace holding an attempt of the given tier
Attempts(tier) == { i \in DOMAIN spd_trace : spd_trace[i].op = tier }

\* C21: in one run of the speed transform the hardware encode is invoked at
\* most once and the software encode is invoked at most once, also on the
\* paths where a removal or a rename raises.
C21_EachTierAtMostOnce ==
    /\ Cardinality(Attempts("hw")) <= 1
    /\ Cardinality(Attempts("cpu")) <= 1

\* C22: the software encode is never attempted after a hardware encode that
\* succeeded, and the rename of the normal-speed video onto the final output
\* is never performed after an encode of any tier that succeeded.
C22_LaterTierOnlyAfterFailure ==
    \A i \in Encodes : spd_trace[i].outcome = "ok" =>
        \A j \in DOMAIN spd_trace : j > i =>
            /\ spd_trace[j].op # "cpu"
            /\ ~(spd_trace[j].op = "rename" /\ spd_trace[j].outcome = "ok")

(***************************************************************************)
(* Properties of run_once and of the main loop.                            *)
(***************************************************************************)
\* C23: whatever happens in the phases of a run, an exception included,
\* run_once returns and never raises, and for every k up to the number of
\* runs asked for, run k is started.
C23_EveryRunIsStarted ==
    /\ [](run_pc # "raised")
    /\ \A k \in 1..MaxRuns :
          num_runs >= k => <>(run_number = k /\ run_pc = "text")

\* the last run asked for is started after a run in which a phase raised
C23_Witness ==
    /\ run_number = num_runs
    /\ run_pc = "text"
    /\ \E i \in DOMAIN run_log : "raised" \in {run_log[i].audio, run_log[i].video}

\* the exits of create_video_with_audio in its steps 1 to 4, which leave no
\* final_output.mp4
AbortedEarly == {"no_audio", "probe_failed", "no_videos", "insufficient"}

\* C24: run_once returns True exactly when the text phase gave a title, a
\* story and a folder that are not empty and neither the audio nor the video
\* phase raised, whatever create_video_with_audio produced; successful_runs
\* counts exactly the runs that returned True.
C24_SuccessIgnoresComposition ==
    /\ \A i \in DOMAIN run_log :
          LET r == run_log[i] IN
          r.result <=>
              /\ r.text.title \notin {None, ""}
              /\ r.text.story \notin {None, ""}
              /\ r.text.folder \notin {None, ""}
              /\ r.audio \in {"narrated", "silent"}
              /\ r.video \in VideoOutcomes \ {"raised"}
    /\ main_pc \in {"loop", "done"} => successful_runs = Successes(run_log)

\* a run whose composition aborted in steps 1 to 4 has been counted
C24_Witness ==
    /\ main_pc = "done"
    /\ successful_runs >= 1
    /\ \E i \in DOMAIN run_log :
          run_log[i].result /\ run_log[i].video \in AbortedEarly

====
